---- MODULE Spec2Model ----
(***************************************************************************)
(* ArchSentinel: the dependency graph (src/src/graph.ts), the per-file     *)
(* analysis (src/src/analyzer.ts) and the editor glue that runs it.        *)
(*                                                                         *)
(* An operating-system path is the sequence of its components (what        *)
(* p.split(path.sep) yields; an absolute path starts with the empty        *)
(* component).  A file identity is the string normalize() makes of it.     *)
(***************************************************************************)
EXTENDS Integers, Sequences, FiniteSets, TLC

\* Bounds of the model.
MaxImports == 4      \* edges handed to update() directly, all files together
MaxLines == 3        \* lines of text, all documents together
MaxReadEdges == 2    \* edges in the graph that detectCycle and getJsonGraph are called on

-----------------------------------------------------------------------------
\* Strings

Includes(s, p) ==
    \E i \in 1..(Len(s) - Len(p) + 1) : SubSeq(s, i, i + Len(p) - 1) = p

StartsWith(s, p) == Len(s) >= Len(p) /\ SubSeq(s, 1, Len(p)) = p

EndsWith(s, p) == Len(s) >= Len(p) /\ SubSeq(s, Len(s) - Len(p) + 1, Len(s)) = p

RECURSIVE TrimStart(_)
TrimStart(s) ==
    IF Len(s) > 0 /\ SubSeq(s, 1, 1) = " " THEN TrimStart(SubSeq(s, 2, Len(s))) ELSE s

RECURSIVE TrimEnd(_)
TrimEnd(s) ==
    IF Len(s) > 0 /\ SubSeq(s, Len(s), Len(s)) = " "
    THEN TrimEnd(SubSeq(s, 1, Len(s) - 1)) ELSE s

Trim(s) == TrimEnd(TrimStart(s))

\* s.split(sep), sep one character
RECURSIVE SplitFrom(_, _, _, _)
SplitFrom(s, sep, i, cur) ==
    IF i > Len(s) THEN <<cur>>
    ELSE IF SubSeq(s, i, i) = sep THEN <<cur>> \o SplitFrom(s, sep, i + 1, "")
    ELSE SplitFrom(s, sep, i + 1, cur \o SubSeq(s, i, i))

Split(s, sep) == SplitFrom(s, sep, 1, "")

\* parts.join(sep)
RECURSIVE Join(_, _)
Join(parts, sep) ==
    IF Len(parts) = 0 THEN ""
    ELSE IF Len(parts) = 1 THEN parts[1]
    ELSE parts[1] \o sep \o Join(Tail(parts), sep)

Range(q) == {q[i] : i \in 1..Len(q)}

\* new RegExp(pattern).test(s), for patterns made of literal characters and
\* the anchors ^ and $
RegExpTest(pattern, s) ==
    LET atStart == StartsWith(pattern, "^")
        atEnd == EndsWith(pattern, "$")
        lo == IF atStart THEN 2 ELSE 1
        hi == IF atEnd THEN Len(pattern) - 1 ELSE Len(pattern)
        body == SubSeq(pattern, lo, hi)
    IN  IF atStart /\ atEnd THEN s = body
        ELSE IF atStart THEN StartsWith(s, body)
        ELSE IF atEnd THEN EndsWith(s, body)
        ELSE Includes(s, body)

\* new RegExp(pattern) throws a SyntaxError on an unterminated group; of the
\* patterns above, those holding a "("
validRegExp(pattern) == ~Includes(pattern, "(")

-----------------------------------------------------------------------------
\* Paths

\* normalize(p): p.split(path.sep).join('/')
normalize(p) == Join(p, "/")

\* path.dirname of an absolute path
dirname(p) == IF Len(p) <= 2 THEN <<"">> ELSE SubSeq(p, 1, Len(p) - 1)

\* path.basename of a forward-slash identity
basename(id) ==
    LET slashes == {i \in 1..Len(id) : SubSeq(id, i, i) = "/"}
        last == IF slashes = {} THEN 0 ELSE CHOOSE i \in slashes : \A j \in slashes : j <= i
    IN  SubSeq(id, last + 1, Len(id))

\* path.resolve(dir, rel): dir absolute, rel a relative literal
RECURSIVE resolveParts(_, _)
resolveParts(acc, parts) ==
    IF Len(parts) = 0 THEN acc
    ELSE LET h == Head(parts) IN
         IF h = "." \/ h = "" THEN resolveParts(acc, Tail(parts))
         ELSE IF h = ".."
              THEN resolveParts(IF Len(acc) > 1 THEN SubSeq(acc, 1, Len(acc) - 1) ELSE acc,
                                Tail(parts))
              ELSE resolveParts(Append(acc, h), Tail(parts))

pathResolve(dir, lit) ==
    IF StartsWith(lit, "/") THEN resolveParts(<<"">>, Split(lit, "/"))
    ELSE resolveParts(dir, Split(lit, "/"))

\* resolved + ext
withExt(p, ext) == [p EXCEPT ![Len(p)] = @ \o ext]

-----------------------------------------------------------------------------
\* The files on disk

FileA == <<"", "src", "domain", "a.ts">>
FileB == <<"", "src", "app", "b.ts">>
FileC == <<"", "src", "infra", "db.ts">>
FileD == <<"", "src", "infra", "log.ts">>

FsFiles == {FileA, FileB, FileC, FileD}

\* fs.existsSync and fs.lstatSync on a disk, the set of its files: a
\* directory is a proper prefix of a file
isFile(files, p) == p \in files
isDirectory(files, p) ==
    \E f \in files : Len(f) > Len(p) /\ SubSeq(f, 1, Len(p)) = p
existsSync(files, p) == isFile(files, p) \/ isDirectory(files, p)

-----------------------------------------------------------------------------
\* State

VARIABLES
    disk,                   \* the files on disk
    ret,                    \* the last direct call of the graph and what it returned
    keys,                   \* adjacencyList's keys, in insertion order
    adj,                    \* adjacencyList: key -> list of edges
    config,                 \* arch-rules.json: whether it exists, and its rules
    text,                   \* each document's text, a list of lines
    diagnosticCollection,   \* document -> published diagnostics
    statusBar,              \* the status bar item's text and issue count
    loop                    \* the event loop: events not yet handled, handler running

vars == <<disk, ret, keys, adj, config, text, diagnosticCollection, statusBar, loop>>

-----------------------------------------------------------------------------
\* DependencyGraph (src/src/graph.ts).  A graph is [keys, adj].

EmptyGraph == [keys |-> <<>>, adj |-> <<>>]

\* adjacencyList.get(node); undefined is treated as no neighbours by dfs
neighborsOf(g, node) == IF node \in DOMAIN g.adj THEN g.adj[node] ELSE <<>>

\* update emptying the lists of the other files
updateClearingOthers(g, filePath, imports) ==
    LET key == normalize(filePath) IN
    [keys |-> IF key \in DOMAIN g.adj THEN g.keys ELSE Append(g.keys, key),
     adj |-> [k \in (DOMAIN g.adj) \cup {key} |-> IF k = key THEN imports ELSE <<>>]]

\* update keeping the list a file has when it is given the empty list
updateSkippingEmpty(g, filePath, imports) ==
    LET key == normalize(filePath) IN
    [keys |-> IF key \in DOMAIN g.adj THEN g.keys ELSE Append(g.keys, key),
     adj |-> [k \in (DOMAIN g.adj) \cup {key} |->
                 IF k = key /\ (imports # <<>> \/ key \notin DOMAIN g.adj)
                 THEN imports ELSE g.adj[k]]]

\* update adding the imports to the list the file already has
updateAppending(g, filePath, imports) ==
    LET key == normalize(filePath) IN
    [keys |-> IF key \in DOMAIN g.adj THEN g.keys ELSE Append(g.keys, key),
     adj |-> [k \in (DOMAIN g.adj) \cup {key} |->
                 IF k = key THEN neighborsOf(g, key) \o imports ELSE g.adj[k]]]

\* update dropping the entry of a file that is given the empty list
updateEvictingEmpty(g, filePath, imports) ==
    LET key == normalize(filePath) IN
    IF imports = <<>>
    THEN [keys |-> SelectSeq(g.keys, LAMBDA k : k # key),
          adj |-> [k \in (DOMAIN g.adj) \ {key} |-> g.adj[k]]]
    ELSE [keys |-> IF key \in DOMAIN g.adj THEN g.keys ELSE Append(g.keys, key),
          adj |-> [k \in (DOMAIN g.adj) \cup {key} |-> IF k = key THEN imports ELSE g.adj[k]]]

\* update(filePath, imports): Map.set keeps the position of an existing key
update(g, filePath, imports) ==
    LET key == normalize(filePath) IN
    [keys |-> IF key \in DOMAIN g.adj THEN g.keys ELSE Append(g.keys, key),
     adj |-> [k \in (DOMAIN g.adj) \cup {key} |-> IF k = key THEN imports ELSE g.adj[k]]]

\* dfs(node, visited, recursionStack, pathStack): s carries the three
\* collections the calls share; found is the return value
RECURSIVE dfs(_, _, _), dfsNeighbors(_, _, _, _)

\* dfsNeighbors taking every visited neighbour for one on the recursion stack
RECURSIVE dfsNeighborsVisitedIsCycle(_, _, _, _)
dfsNeighborsVisitedIsCycle(g, node, i, s) ==
    LET neighbors == neighborsOf(g, node) IN
    IF i > Len(neighbors)
    THEN [s EXCEPT !.found = FALSE,
                   !.recursionStack = @ \ {node},
                   !.pathStack = SubSeq(@, 1, Len(@) - 1)]
    ELSE LET n == neighbors[i].resolvedPath IN
         IF n \notin s.visited
         THEN LET r == dfs(g, n, s) IN
              IF r.found THEN r ELSE dfsNeighborsVisitedIsCycle(g, node, i + 1, r)
         ELSE [s EXCEPT !.found = TRUE, !.pathStack = Append(@, n)]

\* dfsNeighbors returning the path without the closing node
RECURSIVE dfsNeighborsNoClosingNode(_, _, _, _)
dfsNeighborsNoClosingNode(g, node, i, s) ==
    LET neighbors == neighborsOf(g, node) IN
    IF i > Len(neighbors)
    THEN [s EXCEPT !.found = FALSE,
                   !.recursionStack = @ \ {node},
                   !.pathStack = SubSeq(@, 1, Len(@) - 1)]
    ELSE LET n == neighbors[i].resolvedPath IN
         IF n \notin s.visited
         THEN LET r == dfs(g, n, s) IN
              IF r.found THEN r ELSE dfsNeighborsNoClosingNode(g, node, i + 1, r)
         ELSE IF n \in s.recursionStack
              THEN [s EXCEPT !.found = TRUE]
              ELSE dfsNeighborsNoClosingNode(g, node, i + 1, s)

\* dfsNeighbors leaving a node on the path when it backtracks from it
RECURSIVE dfsNeighborsNoPop(_, _, _, _)
dfsNeighborsNoPop(g, node, i, s) ==
    LET neighbors == neighborsOf(g, node) IN
    IF i > Len(neighbors)
    THEN [s EXCEPT !.found = FALSE,
                   !.recursionStack = @ \ {node}]
    ELSE LET n == neighbors[i].resolvedPath IN
         IF n \notin s.visited
         THEN LET r == dfs(g, n, s) IN
              IF r.found THEN r ELSE dfsNeighborsNoPop(g, node, i + 1, r)
         ELSE IF n \in s.recursionStack
              THEN [s EXCEPT !.found = TRUE, !.pathStack = Append(@, n)]
              ELSE dfsNeighborsNoPop(g, node, i + 1, s)

dfs(g, node, s) ==
    dfsNeighbors(g, node, 1,
                 [found |-> FALSE,
                  visited |-> s.visited \cup {node},
                  recursionStack |-> s.recursionStack \cup {node},
                  pathStack |-> Append(s.pathStack, node)])

dfsNeighbors(g, node, i, s) ==
    LET neighbors == neighborsOf(g, node) IN
    IF i > Len(neighbors)
    THEN [s EXCEPT !.found = FALSE,
                   !.recursionStack = @ \ {node},
                   !.pathStack = SubSeq(@, 1, Len(@) - 1)]
    ELSE LET n == neighbors[i].resolvedPath IN
         IF n \notin s.visited
         THEN LET r == dfs(g, n, s) IN
              IF r.found THEN r ELSE dfsNeighbors(g, node, i + 1, r)
         ELSE IF n \in s.recursionStack
              THEN [s EXCEPT !.found = TRUE, !.pathStack = Append(@, n)]
              ELSE dfsNeighbors(g, node, i + 1, s)

\* detectCycle(startNode)
detectCycle(g, startNode) ==
    LET r == dfs(g, normalize(startNode),
                 [found |-> FALSE, visited |-> {}, recursionStack |-> {},
                  pathStack |-> <<>>])
    IN  IF r.found THEN r.pathStack ELSE <<>>

\* dfs one step at a time.  A traversal in progress is [frames, visited,
\* recursionStack, pathStack, found, done]: frames are the calls of dfs not
\* yet returned, each with its node, the neighbour list it read on entry and
\* the neighbour it is at.
NoTraversal ==
    [frames |-> <<>>, visited |-> {}, recursionStack |-> {}, pathStack |-> <<>>,
     found |-> FALSE, done |-> FALSE]

\* dfs is called on node (graph.ts 45-50)
dfsCall(g, m, node) ==
    [m EXCEPT !.visited = @ \cup {node},
              !.recursionStack = @ \cup {node},
              !.pathStack = Append(@, node),
              !.frames = Append(@, [node |-> node, neighbors |-> neighborsOf(g, node),
                                    i |-> 1])]

\* the innermost call returns false (graph.ts 64-66) and its caller moves on
dfsReturnFalse(m) ==
    LET top == m.frames[Len(m.frames)]
        rest == SubSeq(m.frames, 1, Len(m.frames) - 1)
    IN  [m EXCEPT !.recursionStack = @ \ {top.node},
                  !.pathStack = SubSeq(@, 1, Len(@) - 1),
                  !.frames = IF rest = <<>> THEN rest
                             ELSE [rest EXCEPT ![Len(rest)].i = @ + 1],
                  !.done = (rest = <<>>)]

\* dfsStep entering a neighbour again when it is visited and off the stack
dfsStepRevisiting(g, m) ==
    LET top == m.frames[Len(m.frames)] IN
    IF top.i > Len(top.neighbors) THEN dfsReturnFalse(m)
    ELSE LET n == top.neighbors[top.i].resolvedPath IN
         IF n \notin m.recursionStack THEN dfsCall(g, m, n)
         ELSE [m EXCEPT !.pathStack = Append(@, n), !.found = TRUE, !.done = TRUE,
                        !.frames = <<>>]

\* one step of the innermost call: it looks at its next neighbour, or
\* returns (graph.ts 51-66); a call that returns true ends every call
dfsStep(g, m) ==
    LET top == m.frames[Len(m.frames)] IN
    IF top.i > Len(top.neighbors) THEN dfsReturnFalse(m)
    ELSE LET n == top.neighbors[top.i].resolvedPath IN
         IF n \notin m.visited THEN dfsCall(g, m, n)
         ELSE IF n \in m.recursionStack
              THEN [m EXCEPT !.pathStack = Append(@, n), !.found = TRUE, !.done = TRUE,
                             !.frames = <<>>]
              ELSE [m EXCEPT !.frames[Len(m.frames)].i = @ + 1]

\* fanInMap (graph.ts 79-92): every key starts at 0, every edge adds 1 to its target
fanInOf(g, id) ==
    Cardinality(UNION {{<<k, i>> : i \in {j \in 1..Len(g.adj[k]) :
                                              g.adj[k][j].resolvedPath = id}} :
                       k \in DOMAIN g.adj})

\* (ce / total).toFixed(2), in hundredths
toFixed2(ce, total) == IF total = 0 THEN 0 ELSE (200 * ce + total) \div (2 * total)

\* the colour picked from instability = ce / total (0 when total is 0)
nodeColor(ce, total) ==
    IF total # 0 /\ 10 * ce > 7 * total THEN "#ffb347"
    ELSE IF total # 0 /\ 10 * ce > 3 * total THEN "#fdfd96"
    ELSE "#77dd77"

\* the node record pushed for id with fan-out ce
makeNode(g, id, ce) ==
    LET ca == fanInOf(g, id)
        total == ca + ce
    IN  [id |-> id, label |-> basename(id), iLabel |-> toFixed2(ce, total),
         color |-> nodeColor(ce, total)]

\* applicableRulesOf keeping every rule, whatever its scope
applicableRulesUnscoped(rs, file) == rs

\* rules.filter(rule => new RegExp(rule.scope).test(file))
applicableRulesOf(rs, file) ==
    SelectSeq(rs, LAMBDA rule : RegExpTest(rule.scope, file))

\* the violation check of getJsonGraph (graph.ts 158-168)
isViolationEdge(applicable, imp) ==
    \E r \in 1..Len(applicable) : \E f \in 1..Len(applicable[r].forbidden) :
        RegExpTest(applicable[r].forbidden[f], imp.originalImport)

\* styleEdge blind to the suppression flag
styleEdgeUnsuppressed(file, imp, isViolation) ==
    [from |-> file, to |-> imp.resolvedPath,
     color |-> IF isViolation THEN "red" ELSE "gray",
     width |-> IF isViolation THEN 3 ELSE 1,
     dashes |-> IF isViolation THEN "false" ELSE "true"]

\* the edge record pushed (graph.ts 170-194)
styleEdge(file, imp, isViolation) ==
    [from |-> file, to |-> imp.resolvedPath,
     color |-> IF isViolation THEN (IF imp.isIgnored THEN "#FFA500" ELSE "red")
               ELSE "gray",
     width |-> IF isViolation THEN (IF imp.isIgnored THEN 2 ELSE 3) ELSE 1,
     dashes |-> IF isViolation THEN (IF imp.isIgnored THEN "[5,5]" ELSE "false")
                ELSE "true"]

\* jsonImports pushing a node for every target, added before or not
RECURSIVE jsonImportsNoDedup(_, _, _, _, _, _)
jsonImportsNoDedup(g, file, applicable, imports, i, acc) ==
    IF i > Len(imports) THEN acc
    ELSE LET imp == imports[i]
             acc1 == [acc EXCEPT !.nodes = Append(@, makeNode(g, imp.resolvedPath, 0)),
                                 !.addedNodes = @ \cup {imp.resolvedPath}]
             edge == styleEdge(file, imp, isViolationEdge(applicable, imp))
         IN  jsonImportsNoDedup(g, file, applicable, imports, i + 1,
                                [acc1 EXCEPT !.edges = Append(@, edge)])

\* the inner loop of getJsonGraph over one file's imports
RECURSIVE jsonImports(_, _, _, _, _, _)
jsonImports(g, file, applicable, imports, i, acc) ==
    IF i > Len(imports) THEN acc
    ELSE LET imp == imports[i]
             isNew == imp.resolvedPath \notin acc.addedNodes
             acc1 == IF isNew
                     THEN [acc EXCEPT !.nodes = Append(@, makeNode(g, imp.resolvedPath, 0)),
                                      !.addedNodes = @ \cup {imp.resolvedPath}]
                     ELSE acc
             edge == styleEdge(file, imp, isViolationEdge(applicable, imp))
         IN  jsonImports(g, file, applicable, imports, i + 1,
                         [acc1 EXCEPT !.edges = Append(@, edge)])

\* the outer loop of getJsonGraph over adjacencyList.entries()
RECURSIVE jsonEntries(_, _, _, _)
jsonEntries(g, rs, k, acc) ==
    IF k > Len(g.keys) THEN acc
    ELSE LET file == g.keys[k]
             imports == g.adj[file]
             acc1 == IF file \notin acc.addedNodes
                     THEN [acc EXCEPT !.nodes = Append(@, makeNode(g, file, Len(imports))),
                                      !.addedNodes = @ \cup {file}]
                     ELSE acc
         IN  jsonEntries(g, rs, k + 1,
                         jsonImports(g, file, applicableRulesOf(rs, file), imports, 1, acc1))

\* one round of the loop over adjacencyList.entries() (graph.ts 94-196)
jsonEntry(g, rs, k, acc) ==
    LET file == g.keys[k]
        imports == g.adj[file]
        acc1 == IF file \notin acc.addedNodes
                THEN [acc EXCEPT !.nodes = Append(@, makeNode(g, file, Len(imports))),
                                 !.addedNodes = @ \cup {file}]
                ELSE acc
    IN  jsonImports(g, file, applicableRulesOf(rs, file), imports, 1, acc1)

\* getJsonGraph(rules)
getJsonGraph(g, rs) ==
    LET r == jsonEntries(g, rs, 1, [nodes |-> <<>>, edges |-> <<>>, addedNodes |-> {}])
    IN  [nodes |-> r.nodes, edges |-> r.edges]

\* resolveImport(currentFile, importPath) on the disk files; null is modelled
\* as the empty string, which the caller's truthiness test rejects just as it
\* rejects null
Null == ""

\* the extensions tried with .js first
ExtensionsJsFirst == <<".js", ".ts", ".tsx", ".dart", ".jsx">>

Extensions == <<".ts", ".tsx", ".dart", ".js", ".jsx">>

\* resolveImport handing a package literal back as its own identity
resolveImportKeepingPackages(files, currentFile, importPath) ==
    LET currentDir == dirname(currentFile)
        resolved == pathResolve(currentDir, importPath)
        exts == {e \in 1..Len(Extensions) :
                    existsSync(files, withExt(resolved, Extensions[e]))}
        idx == {e \in 1..Len(Extensions) :
                   existsSync(files, Append(resolved, "index" \o Extensions[e]))}
        first(S) == CHOOSE e \in S : \A o \in S : e <= o
    IN  IF StartsWith(importPath, ".")
        THEN IF existsSync(files, resolved) /\ isFile(files, resolved)
             THEN normalize(resolved)
             ELSE IF exts # {} THEN normalize(withExt(resolved, Extensions[first(exts)]))
             ELSE IF existsSync(files, resolved) /\ isDirectory(files, resolved) /\ idx # {}
                  THEN normalize(Append(resolved, "index" \o Extensions[first(idx)]))
             ELSE Null
        ELSE importPath

resolveImport(files, currentFile, importPath) ==
    LET currentDir == dirname(currentFile)
        resolved == pathResolve(currentDir, importPath)
        exts == {e \in 1..Len(Extensions) :
                    existsSync(files, withExt(resolved, Extensions[e]))}
        idx == {e \in 1..Len(Extensions) :
                   existsSync(files, Append(resolved, "index" \o Extensions[e]))}
        first(S) == CHOOSE e \in S : \A o \in S : e <= o
    IN  IF StartsWith(importPath, ".")
        THEN IF existsSync(files, resolved) /\ isFile(files, resolved)
             THEN normalize(resolved)
             ELSE IF exts # {} THEN normalize(withExt(resolved, Extensions[first(exts)]))
             ELSE IF existsSync(files, resolved) /\ isDirectory(files, resolved) /\ idx # {}
                  THEN normalize(Append(resolved, "index" \o Extensions[first(idx)]))
             ELSE Null
        ELSE IF StartsWith(importPath, "/") /\ existsSync(files, Split(importPath, "/"))
             THEN normalize(Split(importPath, "/"))
             ELSE Null

-----------------------------------------------------------------------------
\* analyzeDocument (src/src/analyzer.ts).  A document line is [kind, lit]:
\* an import statement of the literal lit, the first line of an import
\* statement that goes on below, a line that ends such a statement with the
\* literal lit, a require call of lit, or the plain text lit, which holds no
\* quote.

SuppressionMarker == "// arch-ignore"

lineText(line) ==
    IF line.kind = "import" THEN "import x from '" \o line.lit \o "'"
    ELSE IF line.kind = "importHead" THEN "import {"
    ELSE IF line.kind = "importTail" THEN "x } from '" \o line.lit \o "'"
    ELSE IF line.kind = "require" THEN "const x = require('" \o line.lit \o "')"
    ELSE line.lit

\* whether import\s+ matches in the line: the word import with white space,
\* or the end of the line, after it
hasImportWord(line) ==
    \/ line.kind \in {"import", "importHead"}
    \/ line.kind = "text" /\ (Includes(line.lit, "import ") \/ EndsWith(line.lit, "import"))

\* the matches of tsImportRegex from line i on: a match starts at the next
\* line holding the word import and runs, over any lines, to the first
\* from '...' at or below it; the search goes on below the match
RECURSIVE importMatchesFrom(_, _)
importMatchesFrom(txt, i) ==
    IF i > Len(txt) THEN <<>>
    ELSE IF hasImportWord(txt[i])
    THEN LET closers == {j \in i..Len(txt) : txt[j].kind \in {"import", "importTail"}} IN
         IF closers = {} THEN <<>>
         ELSE LET j == CHOOSE c \in closers : \A o \in closers : c <= o IN
              <<[importPath |-> txt[j].lit, line |-> i - 1, litLine |-> j - 1]>>
              \o importMatchesFrom(txt, j + 1)
    ELSE importMatchesFrom(txt, i + 1)

\* the matches of one of the import regexes, in text order; line is the
\* 0-based line of match.index, litLine that of the literal
matchesOf(txt, regex) ==
    IF regex = "tsImportRegex" THEN importMatchesFrom(txt, 1)
    ELSE LET hit(line) == \/ regex = "tsRequireRegex" /\ line.kind = "require"
                          \/ regex = "dartImportRegex" /\ line.kind = "dartImport"
             at == SelectSeq([i \in 1..Len(txt) |-> i], LAMBDA i : hit(txt[i]))
         IN  [m \in 1..Len(at) |->
                 [importPath |-> txt[at[m]].lit, line |-> at[m] - 1, litLine |-> at[m] - 1]]

\* the suppression check (analyzer.ts 73-81)
isIgnoredAt(txt, startLine) ==
    startLine > 0 /\ Includes(Trim(lineText(txt[startLine])), SuppressionMarker)

\* analyzer.ts 83-93
resolvedAbsolutePathOf(fileDir, importPath) ==
    IF StartsWith(importPath, ".") THEN normalize(pathResolve(fileDir, importPath))
    ELSE normalize(Split(importPath, "/"))

\* forbiddenHit testing the literal alone
forbiddenHitLiteralOnly(forbiddenPattern, resolvedAbsolutePath, importPath) ==
    RegExpTest(forbiddenPattern, importPath)

\* does this forbidden pattern flag the import (analyzer.ts 103)
forbiddenHit(forbiddenPattern, resolvedAbsolutePath, importPath) ==
    RegExpTest(forbiddenPattern, resolvedAbsolutePath) \/ RegExpTest(forbiddenPattern, importPath)

\* the diagnostic's range is that of the literal
violationDiagnostic(rule, m) ==
    [line |-> m.litLine,
     message |-> rule.message \o " (Forbidden import: " \o m.importPath \o ")",
     severity |-> "Error", source |-> "ArchSentinel"]

\* the rule loops for one import (analyzer.ts 95-115)
RECURSIVE checkPatterns(_, _, _, _, _, _)
checkPatterns(rule, f, m, resolvedAbsolutePath, isIgnored, diags) ==
    IF f > Len(rule.forbidden) THEN diags
    ELSE checkPatterns(rule, f + 1, m, resolvedAbsolutePath, isIgnored,
            IF forbiddenHit(rule.forbidden[f], resolvedAbsolutePath, m.importPath)
               /\ ~isIgnored
            THEN Append(diags, violationDiagnostic(rule, m)) ELSE diags)

RECURSIVE checkRules(_, _, _, _, _, _)
checkRules(applicable, r, m, resolvedAbsolutePath, isIgnored, diags) ==
    IF r > Len(applicable) THEN diags
    ELSE checkRules(applicable, r + 1, m, resolvedAbsolutePath, isIgnored,
            checkPatterns(applicable[r], 1, m, resolvedAbsolutePath, isIgnored, diags))

\* the body of the while loop for one match (analyzer.ts 58-123); documents
\* are analysed on the disk FsFiles, which no editor event changes
analyzeMatch(fileName, txt, applicable, m, acc) ==
    LET isIgnored == isIgnoredAt(txt, m.line)
        resolvedAbsolutePath == resolvedAbsolutePathOf(dirname(fileName), m.importPath)
        diags == checkRules(applicable, 1, m, resolvedAbsolutePath, isIgnored,
                            acc.diagnostics)
        graphResolvedPath == resolveImport(FsFiles, fileName, m.importPath)
    IN  [diagnostics |-> diags,
         importsFound |-> IF graphResolvedPath # Null
                          THEN Append(acc.importsFound,
                                      [resolvedPath |-> graphResolvedPath,
                                       originalImport |-> m.importPath,
                                       isIgnored |-> isIgnored])
                          ELSE acc.importsFound]

RECURSIVE analyzeMatches(_, _, _, _, _, _)
analyzeMatches(fileName, txt, applicable, ms, i, acc) ==
    IF i > Len(ms) THEN acc
    ELSE analyzeMatches(fileName, txt, applicable, ms, i + 1,
                        analyzeMatch(fileName, txt, applicable, ms[i], acc))

RECURSIVE analyzeRegexes(_, _, _, _, _, _)
analyzeRegexes(fileName, txt, applicable, regexes, k, acc) ==
    IF k > Len(regexes) THEN acc
    ELSE analyzeRegexes(fileName, txt, applicable, regexes, k + 1,
            analyzeMatches(fileName, txt, applicable, matchesOf(txt, regexes[k]), 1, acc))

cycleDiagnostic(cycle) ==
    [line |-> 0,
     message |-> "Circular Dependency Detected: "
                 \o Join([i \in 1..Len(cycle) |-> basename(cycle[i])], " -> "),
     severity |-> "Warning", source |-> "ArchSentinel"]

-----------------------------------------------------------------------------
\* ArchStatusBar.update (src/src/ui/statusBar.ts)

statusBarUpdate(diagnostics) ==
    LET errorCount == Len(SelectSeq(diagnostics, LAMBDA d : d.severity = "Error"))
        warningCount == Len(SelectSeq(diagnostics, LAMBDA d : d.severity = "Warning"))
        totalIssues == errorCount + warningCount
    IN  IF totalIssues = 0 THEN [text |-> "Arch: Clean", issues |-> 0]
        ELSE [text |-> "Arch: Issues", issues |-> totalIssues]

-----------------------------------------------------------------------------
\* What the editor and the user can supply

Documents == {FileA, FileC}

Literals == {"../infra/db", "react", "../domain/a"}

MarkerLine == [kind |-> "text", lit |-> SuppressionMarker]
ImportLine(l) == [kind |-> "import", lit |-> l]

Lines == {MarkerLine} \cup {ImportLine(l) : l \in Literals}

\* the lines of the texts the quick fix is tried on: imports on one line and
\* an import on two
HeadLine == [kind |-> "importHead", lit |-> ""]
TailLine(l) == [kind |-> "importTail", lit |-> l]

\* a comment that has the word import
NoteLine == [kind |-> "text", lit |-> "// import order"]

FixLines == {MarkerLine, NoteLine, ImportLine("../infra/db"), ImportLine("../domain/a"),
             HeadLine, TailLine("../infra/db")}

Texts == UNION {[1..n -> Lines] : n \in 0..MaxLines}

RuleNoInfra == [scope |-> "src/domain", forbidden |-> <<"src/infra">>, message |-> "no infra"]
RulePureDomain ==
    [scope |-> "src/domain", forbidden |-> <<"^react$", "infra">>, message |-> "pure domain"]
RuleNoDb == [scope |-> "src", forbidden |-> <<"db">>, message |-> "no db"]

RuleSets == {<<RuleNoInfra>>, <<RulePureDomain, RuleNoDb>>}

\* rules with a pattern that is no regular expression
RuleBadForbidden ==
    [scope |-> "src/domain", forbidden |-> <<"src/infra", "(">>, message |-> "bad forbidden"]
RuleBadScope == [scope |-> "(", forbidden |-> <<"src/infra">>, message |-> "bad scope"]

BadRuleSets == {<<RuleBadForbidden>>, <<RuleNoInfra, RuleBadScope>>}

Configs == {[exists |-> FALSE, rules |-> <<>>]}
           \cup {[exists |-> TRUE, rules |-> rs] : rs \in RuleSets}

\* edge lists handed to update() directly: distinct targets, in any order
GraphFiles == {FileA, FileB, FileC}

EdgeTo(f) == [resolvedPath |-> normalize(f), originalImport |-> normalize(f),
              isIgnored |-> FALSE]

EdgeLists ==
    {q \in UNION {[1..n -> {EdgeTo(f) : f \in FsFiles}] : n \in 0..MaxImports} :
        \A i, j \in 1..Len(q) : i # j => q[i] # q[j]}

\* whether analyzeDocument throws: new RegExp(rule.scope) is evaluated for
\* every rule (analyzer.ts 31), new RegExp(forbiddenPattern) for every
\* pattern of every applicable rule at every import match (95-98)
throwsSyntaxError(fileName, txt, rs) ==
    \/ \E r \in 1..Len(rs) : ~validRegExp(rs[r].scope)
    \/ /\ \E k \in {"tsImportRegex", "tsRequireRegex"} : Len(matchesOf(txt, k)) > 0
       /\ \E r \in 1..Len(rs) :
             /\ RegExpTest(rs[r].scope, normalize(fileName))
             /\ \E f \in 1..Len(rs[r].forbidden) : ~validRegExp(rs[r].forbidden[f])

\* analyzeDocument up to the graph update (analyzer.ts 23-124): whether any
\* rule applies to the file, and the findings and edges of its imports; a
\* function of the document and the rules alone
scanImports(fileName, txt, rs) ==
    LET filePath == normalize(fileName)
        applicable == applicableRulesOf(rs, filePath)
        isDart == EndsWith(filePath, ".dart")
        regexes == IF isDart THEN <<"dartImportRegex">>
                   ELSE <<"tsImportRegex", "tsRequireRegex">>
        found == analyzeRegexes(fileName, txt, applicable, regexes, 1,
                                [diagnostics |-> <<>>, importsFound |-> <<>>])
    IN  IF throwsSyntaxError(fileName, txt, rs)
        THEN [threw |-> TRUE, inScope |-> FALSE, diagnostics |-> <<>>,
              importsFound |-> <<>>]
        ELSE [threw |-> FALSE,
              inScope |-> Len(applicable) # 0,
              diagnostics |-> found.diagnostics,
              importsFound |-> found.importsFound]

\* scanImports, tabulated once for each document, rule set and text; the
\* table is indexed by the document, the rules and the text line by line
\* (the texts the quick fix is tried on are those of a.ts under valid rules)
RECURSIVE scannedFrom(_, _, _)
scannedFrom(fileName, rs, txt) ==
    [found |-> scanImports(fileName, txt, rs),
     next  |-> IF Len(txt) >= MaxLines THEN <<>>
               ELSE [l \in Lines \cup (IF fileName = FileA /\ rs \in RuleSets
                                       THEN FixLines ELSE {}) |->
                        scannedFrom(fileName, rs, Append(txt, l))] @@ <<>>]

scanned ==
    [d \in Documents |->
        [rs \in RuleSets \cup BadRuleSets |-> scannedFrom(d, rs, <<>>)] @@ <<>>] @@ <<>>

RECURSIVE scannedAt(_, _, _)
scannedAt(node, txt, i) ==
    IF i > Len(txt) THEN node.found ELSE scannedAt(node.next[txt[i]], txt, i + 1)

\* analyzeDocument recording the imports before it checks the rules
analyzeDocumentUpdatingFirst(fileName, txt, rs, g) ==
    LET found == scanImports(fileName, txt, [r \in 1..Len(rs) |->
                                [rs[r] EXCEPT !.forbidden = <<>>]])
    IN  IF scannedAt(scanned[fileName][rs], txt, 1).threw /\ ~found.threw
        THEN [threw |-> TRUE, diagnostics |-> <<>>,
              graph |-> update(g, fileName, found.importsFound)]
        ELSE [threw |-> scannedAt(scanned[fileName][rs], txt, 1).threw,
              diagnostics |-> <<>>, graph |-> g]

\* analyzeDocument(doc, rules, graph): whether it throws, the diagnostics
\* returned and the graph as the call leaves it
analyzeDocument(fileName, txt, rs, g) ==
    LET found == scannedAt(scanned[fileName][rs], txt, 1) IN
    IF found.threw THEN [threw |-> TRUE, diagnostics |-> <<>>, graph |-> g]
    ELSE IF ~found.inScope THEN [threw |-> FALSE, diagnostics |-> <<>>, graph |-> g]
    ELSE LET g1 == update(g, fileName, found.importsFound)
             cycle == detectCycle(g1, fileName)
         IN  [threw |-> FALSE,
              diagnostics |-> IF Len(cycle) > 0
                              THEN Append(found.diagnostics, cycleDiagnostic(cycle))
                              ELSE found.diagnostics,
              graph |-> g1]

-----------------------------------------------------------------------------
\* Actions

graph == [keys |-> keys, adj |-> adj]

NoCall == [call |-> "none"]

\* no event waiting and no handler running
Idle == [pc |-> "idle"]
IdleLoop == [queue |-> <<>>, run |-> Idle]

Init ==
    /\ disk = FsFiles
    /\ ret = NoCall
    /\ keys = <<>>
    /\ adj = <<>>
    /\ config \in Configs
    /\ text = [d \in Documents |-> <<>>]
    /\ diagnosticCollection = [d \in Documents |-> <<>>]
    /\ statusBar = statusBarUpdate(<<>>)
    /\ loop = IdleLoop

\* runAnalysis(document) (src/unnamed/part_001 100-139); an exception of
\* analyzeDocument is caught and logged, nothing is published; the graph is
\* as the call left it
runAnalysis(document, txt) ==
    IF config.exists
    THEN \E r \in {analyzeDocument(document, txt, config.rules, graph)} :
         /\ keys' = r.graph.keys
         /\ adj' = r.graph.adj
         /\ IF r.threw
            THEN UNCHANGED <<diagnosticCollection, statusBar>>
            ELSE /\ diagnosticCollection' =
                       [diagnosticCollection EXCEPT ![document] = r.diagnostics]
                 /\ statusBar' = statusBarUpdate(r.diagnostics)
    ELSE /\ diagnosticCollection' = [d \in Documents |-> <<>>]
         /\ UNCHANGED <<keys, adj, statusBar>>

\* onDidSaveTextDocument: the document is saved with the text txt
OnDidSaveTextDocument(document, txt) ==
    /\ text' = [text EXCEPT ![document] = txt]
    /\ runAnalysis(document, txt)
    /\ UNCHANGED <<disk, ret, config, loop>>

\* onDidOpenTextDocument
OnDidOpenTextDocument(document) ==
    /\ runAnalysis(document, text[document])
    /\ UNCHANGED <<disk, ret, config, text, loop>>

\* lines of text in the documents other than d
linesElsewhere(d) ==
    LET others == Documents \ {d}
        RECURSIVE sum(_)
        sum(S) == IF S = {} THEN 0
                  ELSE LET x == CHOOSE x \in S : TRUE IN Len(text[x]) + sum(S \ {x})
    IN  sum(others)

Next ==
    \/ \E d \in Documents, t \in Texts :
          /\ Len(t) + linesElsewhere(d) <= MaxLines
          /\ OnDidSaveTextDocument(d, t)
    \/ \E d \in Documents : OnDidOpenTextDocument(d)

Spec == Init /\ [][Next]_vars

\* arch-rules.json is written or removed by the user; runAnalysis reads it
\* anew at every analysis
ChangeConfig(c) ==
    /\ c # config
    /\ config' = c
    /\ UNCHANGED <<disk, ret, keys, adj, text, diagnosticCollection, statusBar, loop>>

ConfigChoices == Configs \cup {[exists |-> TRUE, rules |-> rs] : rs \in BadRuleSets}

\* a.ts, a text of imports, is saved and opened while the rules change
ConfigTexts == {t \in Texts : Len(t) < MaxLines /\ MarkerLine \notin Range(t)}

NextConfig ==
    \/ \E t \in ConfigTexts : OnDidSaveTextDocument(FileA, t)
    \/ OnDidOpenTextDocument(FileA)
    \/ \E c \in ConfigChoices : ChangeConfig(c)

SpecConfig == Init /\ [][NextConfig]_vars

\* ArchSentinelFixProvider (src/src/quickFix.ts)
indentationOf(s) == SubSeq(s, 1, Len(s) - Len(TrimStart(s)))

\* provideCodeActions offers the fix on the diagnostics of this source
fixOffered(diagnostic) == diagnostic.source = "ArchSentinel"

\* the text after the edit of createFix: the marker, indented as the
\* diagnostic's start line, inserted as a line of its own before that line
createFix(txt, diagnostic) ==
    LET l == diagnostic.line + 1
        insertText == [kind |-> "text",
                       lit |-> indentationOf(lineText(txt[l])) \o SuppressionMarker]
    IN  SubSeq(txt, 1, l - 1) \o <<insertText>> \o SubSeq(txt, l, Len(txt))

\* the quick fix of the k-th diagnostic of the document is applied and the
\* document saved, which analyses it again
ApplyQuickFix(document, k) ==
    /\ k \in 1..Len(diagnosticCollection[document])
    /\ fixOffered(diagnosticCollection[document][k])
    /\ \E t \in {createFix(text[document], diagnosticCollection[document][k])} :
          OnDidSaveTextDocument(document, t)

FixTexts == UNION {[1..n -> FixLines] : n \in 0..MaxLines}

NextFix ==
    \/ \E t \in FixTexts :
          /\ Len(t) + linesElsewhere(FileA) <= MaxLines
          /\ OnDidSaveTextDocument(FileA, t)
    \/ \E k \in 1..(MaxLines + 1) :
          /\ Len(text[FileA]) + 1 + linesElsewhere(FileA) <= MaxLines
          /\ ApplyQuickFix(FileA, k)

SpecFix == Init /\ [][NextFix]_vars

\* the editor events under rules with a pattern that is no regular expression
InitBadRules ==
    /\ disk = FsFiles
    /\ ret = NoCall
    /\ keys = <<>>
    /\ adj = <<>>
    /\ config \in {[exists |-> TRUE, rules |-> rs] : rs \in BadRuleSets}
    /\ text = [d \in Documents |-> <<>>]
    /\ diagnosticCollection = [d \in Documents |-> <<>>]
    /\ statusBar = statusBarUpdate(<<>>)
    /\ loop = IdleLoop

SpecBadRules == InitBadRules /\ [][Next]_vars

\* graph.update(filePath, imports) called directly
GraphUpdate(filePath, imports) ==
    \E g \in {update(graph, filePath, imports)} :
    /\ keys' = g.keys
    /\ adj' = g.adj
    /\ ret' = [call |-> "update"]
    /\ UNCHANGED <<disk, config, text, diagnosticCollection, statusBar, loop>>

\* edges recorded for the files other than f
edgesElsewhere(f) ==
    LET others == Range(keys) \ {normalize(f)}
        RECURSIVE sum(_)
        sum(S) == IF S = {} THEN 0
                  ELSE LET x == CHOOSE x \in S : TRUE IN Len(adj[x]) + sum(S \ {x})
    IN  sum(others)

NextGraph ==
    \E f \in GraphFiles, imports \in EdgeLists :
        /\ Len(imports) + edgesElsewhere(f) <= MaxImports
        /\ GraphUpdate(f, imports)

InitGraph == Init /\ config = [exists |-> TRUE, rules |-> <<RuleNoInfra>>]

SpecGraph == InitGraph /\ [][NextGraph]_vars

\* graph.detectCycle(startNode) called directly
DetectCycle(startNode) ==
    /\ ret' = [call |-> "detectCycle", startNode |-> normalize(startNode),
               value |-> detectCycle(graph, startNode)]
    /\ UNCHANGED <<disk, keys, adj, config, text, diagnosticCollection, statusBar, loop>>

\* graph.getJsonGraph(rules) called directly (GraphPanel._getHtmlForWebview)
GetJsonGraph(rs) ==
    /\ ret' = [call |-> "getJsonGraph", value |-> getJsonGraph(graph, rs)]
    /\ UNCHANGED <<disk, keys, adj, config, text, diagnosticCollection, statusBar, loop>>

\* updates, traversals and projections of a small graph, in any order
ReadFiles == {FileA, FileB}

ReadEdgeLists ==
    {q \in EdgeLists :
        /\ Len(q) <= MaxReadEdges
        /\ \A i \in 1..Len(q) : \E f \in GraphFiles : q[i] = EdgeTo(f)}

NextRead ==
    \/ \E f \in ReadFiles, imports \in ReadEdgeLists :
          /\ Len(imports) + edgesElsewhere(f) <= MaxReadEdges
          /\ GraphUpdate(f, imports)
    \/ \E f \in FsFiles : DetectCycle(f)
    \/ GetJsonGraph(config.rules)

SpecRead == InitGraph /\ [][NextRead]_vars

\* graph.resolveImport(currentFile, importPath) called directly
ResolveImport(currentFile, importPath) ==
    /\ ret' = [call |-> "resolveImport", importPath |-> importPath,
               value |-> resolveImport(disk, currentFile, importPath)]
    /\ UNCHANGED <<disk, keys, adj, config, text, diagnosticCollection, statusBar, loop>>

\* the disks on which a.ts imports the module m beside it: m a file or a
\* directory, any of m.ts .. m.jsx, any of m/index.ts .. m/index.jsx
ModuleM == <<"", "src", "domain", "m">>

ExtFiles == {withExt(ModuleM, Extensions[e]) : e \in 1..Len(Extensions)}

InsideFiles == {Append(ModuleM, "index" \o Extensions[e]) : e \in 1..Len(Extensions)}
               \cup {Append(ModuleM, "other.ts")}

Disks == {{FileA} \cup X \cup Y :
             X \in SUBSET ExtFiles, Y \in {{ModuleM}} \cup SUBSET InsideFiles}

ResolveLiterals == {"./m", "./m.ts", "/src/domain/m.js", "/src/domain/m", "m"}

InitResolve ==
    /\ disk \in Disks
    /\ ret = NoCall
    /\ keys = <<>>
    /\ adj = <<>>
    /\ config = [exists |-> FALSE, rules |-> <<>>]
    /\ text = [d \in Documents |-> <<>>]
    /\ diagnosticCollection = [d \in Documents |-> <<>>]
    /\ statusBar = statusBarUpdate(<<>>)
    /\ loop = IdleLoop

NextResolve == \E lit \in ResolveLiterals : ResolveImport(FileA, lit)

SpecResolve == InitResolve /\ [][NextResolve]_vars

-----------------------------------------------------------------------------
\* The event loop.  The editor queues an event whenever the user saves or
\* opens a document or asks for the graph; the extension host hands the
\* events to their handlers one at a time, and a handler, which has no await,
\* runs to its end before the next event is taken (part_001 38-59, 80-92).

MaxQueue == 1        \* events waiting to be handled

\* a handler running keeps the next event waiting
canDispatchAnytime(l) == TRUE

canDispatch(l) == l.run = Idle

\* the texts saved: a.ts imports db.ts twice, and db.ts imports a.ts or
\* itself
LoopTexts(d) ==
    IF d = FileA
    THEN {<<>>, <<ImportLine("../infra/db"), ImportLine("../infra/db")>>}
    ELSE {<<>>, <<ImportLine("../domain/a")>>, <<ImportLine("../infra/db")>>}

Enqueue(event) == loop' = [loop EXCEPT !.queue = Append(@, event)]

\* the user saves document d with the text t
EmitSave(d, t) ==
    /\ Len(loop.queue) < MaxQueue
    /\ text' = [text EXCEPT ![d] = t]
    /\ Enqueue([kind |-> "analyze", document |-> d])
    /\ UNCHANGED <<disk, ret, keys, adj, config, diagnosticCollection, statusBar>>

\* the user opens document d
EmitOpen(d) ==
    /\ Len(loop.queue) < MaxQueue
    /\ Enqueue([kind |-> "analyze", document |-> d])
    /\ UNCHANGED <<disk, ret, keys, adj, config, text, diagnosticCollection, statusBar>>

\* the user runs archsentinel.showGraph
EmitShowGraph ==
    /\ Len(loop.queue) < MaxQueue
    /\ Enqueue([kind |-> "showGraph"])
    /\ UNCHANGED <<disk, ret, keys, adj, config, text, diagnosticCollection, statusBar>>

\* runAnalysis(document) starts: analyzeDocument up to graph.update and the
\* call of detectCycle (analyzer.ts 23-127); an analysis that returns early
\* or throws is over at once
StartAnalysis(document, rest) ==
    LET found == scannedAt(scanned[document][config.rules], text[document], 1) IN
    IF found.threw
    THEN /\ loop' = [queue |-> rest, run |-> Idle]
         /\ UNCHANGED <<keys, adj, diagnosticCollection, statusBar>>
    ELSE IF ~found.inScope
    THEN /\ loop' = [queue |-> rest, run |-> Idle]
         /\ diagnosticCollection' = [diagnosticCollection EXCEPT ![document] = <<>>]
         /\ statusBar' = statusBarUpdate(<<>>)
         /\ UNCHANGED <<keys, adj>>
    ELSE \E g1 \in {update(graph, document, found.importsFound)} :
         /\ keys' = g1.keys
         /\ adj' = g1.adj
         /\ loop' = [queue |-> rest,
                     run |-> [pc |-> "detectCycle", document |-> document,
                              diagnostics |-> found.diagnostics,
                              m |-> dfsCall(g1, NoTraversal, normalize(document))]]
         /\ UNCHANGED <<diagnosticCollection, statusBar>>

\* the next event is handed to its handler
Dispatch ==
    /\ canDispatch(loop)
    /\ loop.queue # <<>>
    /\ LET event == Head(loop.queue)
           rest == Tail(loop.queue)
       IN  IF event.kind = "analyze"
           THEN /\ IF config.exists
                   THEN StartAnalysis(event.document, rest)
                   ELSE /\ diagnosticCollection' = [d \in Documents |-> <<>>]
                        /\ loop' = [queue |-> rest, run |-> Idle]
                        /\ UNCHANGED <<keys, adj, statusBar>>
                /\ UNCHANGED <<disk, ret, config, text>>
           ELSE /\ loop' = [queue |-> rest,
                            run |-> [pc |-> "getJsonGraph",
                                     rules |-> IF config.exists THEN config.rules ELSE <<>>,
                                     k |-> 1,
                                     acc |-> [nodes |-> <<>>, edges |-> <<>>,
                                              addedNodes |-> {}]]]
                /\ UNCHANGED <<disk, ret, keys, adj, config, text, diagnosticCollection,
                               statusBar>>

\* the running handler takes its next step: a step of dfs, or the rest of
\* runAnalysis once detectCycle has returned (analyzer.ts 129-142,
\* part_001 124-130); a round of getJsonGraph's loop, or its return to
\* the panel
HandlerStep ==
    LET run == loop.run IN
    /\ run # Idle
    /\ IF run.pc = "detectCycle"
       THEN IF run.m.done
            THEN LET cycle == IF run.m.found THEN run.m.pathStack ELSE <<>>
                     diagnostics == IF Len(cycle) > 0
                                    THEN Append(run.diagnostics, cycleDiagnostic(cycle))
                                    ELSE run.diagnostics
                 IN  /\ diagnosticCollection' =
                           [diagnosticCollection EXCEPT ![run.document] = diagnostics]
                     /\ statusBar' = statusBarUpdate(diagnostics)
                     /\ loop' = [loop EXCEPT !.run = Idle]
                     /\ UNCHANGED <<disk, ret, keys, adj, config, text>>
            ELSE /\ loop' = [loop EXCEPT !.run.m = dfsStep(graph, run.m)]
                 /\ UNCHANGED <<disk, ret, keys, adj, config, text, diagnosticCollection,
                                statusBar>>
       ELSE IF run.k > Len(keys)
            THEN /\ loop' = [loop EXCEPT !.run = Idle]
                 /\ UNCHANGED <<disk, ret, keys, adj, config, text, diagnosticCollection,
                                statusBar>>
            ELSE /\ loop' = [loop EXCEPT !.run.acc = jsonEntry(graph, run.rules, run.k, @),
                                         !.run.k = @ + 1]
                 /\ UNCHANGED <<disk, ret, keys, adj, config, text, diagnosticCollection,
                                statusBar>>

NextLoop ==
    \/ \E d \in Documents : \E t \in LoopTexts(d) : EmitSave(d, t)
    \/ \E d \in Documents : EmitOpen(d)
    \/ EmitShowGraph
    \/ Dispatch
    \/ HandlerStep

InitLoop == Init /\ config = [exists |-> TRUE, rules |-> <<RulePureDomain, RuleNoDb>>]

SpecLoop == InitLoop /\ [][NextLoop]_vars

\* saves alone; the extension host keeps running the handler it has started
NextTraverse ==
    \/ \E d \in Documents : \E t \in LoopTexts(d) : EmitSave(d, t)
    \/ Dispatch
    \/ HandlerStep

SpecTraverse == InitLoop /\ [][NextTraverse]_vars /\ WF_vars(HandlerStep)

-----------------------------------------------------------------------------
\* Properties of the dependency graph, under SpecGraph

IdA == normalize(FileA)
IdB == normalize(FileB)
IdC == normalize(FileC)
IdD == normalize(FileD)

Ids == {normalize(f) : f \in FsFiles}

\* the targets of the edges recorded for id
Successors(id) ==
    IF id \in DOMAIN adj THEN {adj[id][i].resolvedPath : i \in 1..Len(adj[id])} ELSE {}

\* everything reachable from the set S along recorded edges, S included
RECURSIVE ReachableFrom(_)
ReachableFrom(S) ==
    LET T == S \cup UNION {Successors(id) : id \in S} IN
    IF T = S THEN S ELSE ReachableFrom(T)

OnCycle(id) == Successors(id) # {} /\ id \in ReachableFrom(Successors(id))

CycleReachableFrom(id) == \E n \in ReachableFrom({id}) : OnCycle(n)

HasExactly(id, targets) ==
    /\ id \in DOMAIN adj
    /\ [i \in 1..Len(adj[id]) |-> adj[id][i].resolvedPath] = targets

C2_WitnessClosed ==
    \A f \in FsFiles :
        LET w == detectCycle(graph, f) IN w # <<>> => w[1] = w[Len(w)]

\* C3: on a ring of n >= 1 files, each importing only the next, detectCycle
\* from a member X returns the n+1 identities X, the other members in import
\* order, X
IsRing(ring) ==
    /\ \A i, j \in 1..Len(ring) : i # j => ring[i] # ring[j]
    /\ \A i \in 1..Len(ring) : HasExactly(normalize(ring[i]), <<normalize(ring[(i % Len(ring)) + 1])>>)

Rings == UNION {[1..n -> GraphFiles] : n \in 1..Cardinality(GraphFiles)}

C3_RingWitness ==
    \A ring \in Rings :
        IsRing(ring) =>
            detectCycle(graph, ring[1])
                = [i \in 1..Len(ring) + 1 |-> normalize(ring[((i - 1) % Len(ring)) + 1])]

\* the ring A -> B -> C -> A, reported from A
C3_Witness ==
    /\ IsRing(<<FileA, FileB, FileC>>)
    /\ detectCycle(graph, FileA) = <<IdA, IdB, IdC, IdA>>

\* C4: every node of getJsonGraph is reported with fanOut / (fanIn + fanOut),
\* 0 when both are 0, whatever the insertion order of the files
FanOut(id) == IF id \in DOMAIN adj THEN Len(adj[id]) ELSE 0

FanIn(id) ==
    Cardinality({<<k, i>> \in (DOMAIN adj) \X (1..Cardinality(Ids)) :
                    i <= Len(adj[k]) /\ adj[k][i].resolvedPath = id})

C4_Instability ==
    LET json == getJsonGraph(graph, config.rules) IN
    \A n \in 1..Len(json.nodes) :
        LET id == json.nodes[n].id IN
        json.nodes[n].iLabel = toFixed2(FanOut(id), FanIn(id) + FanOut(id))

-----------------------------------------------------------------------------
\* Properties of the analysis, under Spec

Clean == [color |-> "gray", width |-> 1, dashes |-> "true"]
ActiveViolation == [color |-> "red", width |-> 3, dashes |-> "false"]
SuppressedViolation == [color |-> "#FFA500", width |-> 2, dashes |-> "[5,5]"]

StyleOf(e) == [color |-> e.color, width |-> e.width, dashes |-> e.dashes]

\* the recorded edges with their files, in the order getJsonGraph walks them
RECURSIVE StoredEdgesFrom(_)
StoredEdgesFrom(k) ==
    IF k > Len(keys) THEN <<>>
    ELSE [i \in 1..Len(adj[keys[k]]) |-> [from |-> keys[k], imp |-> adj[keys[k]][i]]]
         \o StoredEdgesFrom(k + 1)

StoredEdges == StoredEdgesFrom(1)

Rendered(rs) == getJsonGraph(graph, rs).edges

ConfigNoInfra == [exists |-> TRUE, rules |-> <<RuleNoInfra>>]
ConfigPureDomain == [exists |-> TRUE, rules |-> <<RulePureDomain, RuleNoDb>>]

DbImport == ImportLine("../infra/db")

Published(d) == diagnosticCollection[d]

\* the import on line i (counted from 1) of d has the marker on the line above
MarkerAbove(d, i) == i > 1 /\ text[d][i - 1] = MarkerLine

IsImportAt(d, i) == i \in 1..Len(text[d]) /\ text[d][i].kind = "import"

\* the path the analysis matches rules against for the literal lit of d
TargetPath(d, lit) ==
    IF StartsWith(lit, ".") THEN normalize(pathResolve(dirname(d), lit)) ELSE lit

InScopeOf(rule, d) == RegExpTest(rule.scope, normalize(d))

\* some forbidden pattern of a rule applying to d matches the literal or its path
LiveMatch(d, lit) ==
    \E r \in 1..Len(config.rules) :
        /\ InScopeOf(config.rules[r], d)
        /\ \E f \in 1..Len(config.rules[r].forbidden) :
              \/ RegExpTest(config.rules[r].forbidden[f], TargetPath(d, lit))
              \/ RegExpTest(config.rules[r].forbidden[f], lit)

\* C5: under the rule src/domain -> src/infra "no infra", a.ts importing
\* '../infra/db' gets one finding mentioning "no infra" and its edge to db.ts
\* is rendered as an active violation; with the marker on the line above and
\* the file analysed again, the edge is rendered as a suppressed violation
C5_EndToEnd ==
    config = ConfigNoInfra =>
        /\ text[FileA] = <<DbImport>> =>
              /\ Len(SelectSeq(Published(FileA),
                               LAMBDA d : Includes(d.message, "no infra"))) = 1
              /\ \E i \in 1..Len(Rendered(config.rules)) :
                    /\ Rendered(config.rules)[i].from = IdA
                    /\ Rendered(config.rules)[i].to = IdC
                    /\ StyleOf(Rendered(config.rules)[i]) = ActiveViolation
        /\ text[FileA] = <<MarkerLine, DbImport>> =>
              \E i \in 1..Len(Rendered(config.rules)) :
                    /\ Rendered(config.rules)[i].from = IdA
                    /\ Rendered(config.rules)[i].to = IdC
                    /\ StyleOf(Rendered(config.rules)[i]) = SuppressedViolation

\* C6: an import of an in-scope file with the marker on the line above and a
\* matching forbidden pattern still has a finding among the diagnostics
C6_SuppressedStillReported ==
    config.exists =>
        \A d \in Documents : \A i \in 1..Len(text[d]) :
            (IsImportAt(d, i) /\ MarkerAbove(d, i) /\ LiveMatch(d, text[d][i].lit)) =>
                \E k \in 1..Len(Published(d)) :
                    /\ Published(d)[k].line = i - 1
                    /\ Includes(Published(d)[k].message, "Forbidden import")

C8_SamePredicate ==
    config.exists =>
        \A i \in 1..Len(StoredEdges) :
            \A d \in Documents :
                StoredEdges[i].from = normalize(d) =>
                    ((StyleOf(Rendered(config.rules)[i]) # Clean)
                        <=> LiveMatch(d, StoredEdges[i].imp.originalImport))

\* C9: a rule whose scope does not match a file yields neither a finding for
\* that file nor a violation style for an edge of that file
C9_ScopeThenForbidden ==
    config.exists =>
        \A d \in Documents : \A r \in 1..Len(config.rules) :
            ~InScopeOf(config.rules[r], d) =>
                /\ \A k \in 1..Len(Published(d)) :
                      ~StartsWith(Published(d)[k].message, config.rules[r].message)
                /\ \A i \in 1..Len(StoredEdges) :
                      StoredEdges[i].from = normalize(d) =>
                          StyleOf(Rendered(<<config.rules[r]>>)[i]) = Clean

\* db.ts, outside the scope src/domain, analysed with an import that the
\* forbidden patterns of the src/domain rule match
C9_Witness ==
    /\ config = ConfigPureDomain
    /\ \E i \in 1..Len(text[FileC]) : text[FileC][i] = DbImport /\ ~MarkerAbove(FileC, i)
    /\ \E i \in 1..Len(text[FileC]) : text[FileC][i] = ImportLine("react")
    /\ \E i \in 1..Len(StoredEdges) :
          StoredEdges[i].from = IdC /\ StoredEdges[i].imp.originalImport = "../infra/db"
    /\ Published(FileC) # <<>>

\* C10: an unsuppressed import of an in-scope file is flagged for every
\* forbidden pattern that matches its resolved path or its literal; the
\* pattern ^react$ flags the literal react
C10_ForbiddenDualCheck ==
    config.exists =>
        \A d \in Documents : \A i \in 1..Len(text[d]) :
            (IsImportAt(d, i) /\ ~MarkerAbove(d, i)) =>
                \A r \in 1..Len(config.rules) :
                    \A f \in 1..Len(config.rules[r].forbidden) :
                        ( /\ InScopeOf(config.rules[r], d)
                          /\ \/ RegExpTest(config.rules[r].forbidden[f],
                                           TargetPath(d, text[d][i].lit))
                             \/ RegExpTest(config.rules[r].forbidden[f], text[d][i].lit) )
                        => \E k \in 1..Len(Published(d)) :
                              Published(d)[k] =
                                  [line |-> i - 1,
                                   message |-> config.rules[r].message
                                               \o " (Forbidden import: "
                                               \o text[d][i].lit \o ")",
                                   severity |-> "Error", source |-> "ArchSentinel"]

\* a.ts importing react, flagged under the rule whose pattern is ^react$
C10_Witness ==
    /\ config = ConfigPureDomain
    /\ \E i \in 1..Len(text[FileA]) :
          /\ text[FileA][i] = ImportLine("react")
          /\ ~MarkerAbove(FileA, i)
          /\ \E k \in 1..Len(Published(FileA)) :
                /\ Published(FileA)[k].line = i - 1
                /\ Published(FileA)[k].message = "pure domain (Forbidden import: react)"

-----------------------------------------------------------------------------
\* Properties of repeated and partial analyses, under Spec

IsCycleWarning(diag) == StartsWith(diag.message, "Circular Dependency Detected")

\* C11: analysing a file twice in a row, with the same text and rules, gives
\* the second time the graph, the cycle-detection result and the diagnostics
\* of the first time
C11_Idempotent ==
    config.exists =>
        \A d \in Documents :
            LET first == analyzeDocument(d, text[d], config.rules, graph)
                second == analyzeDocument(d, text[d], config.rules, first.graph)
            IN  /\ second.graph = first.graph
                /\ second.diagnostics = first.diagnostics
                /\ detectCycle(second.graph, d) = detectCycle(first.graph, d)

\* a file analysed with a recorded edge, a finding and a cycle warning
C11_Witness ==
    \E d \in Documents :
        /\ normalize(d) \in DOMAIN adj
        /\ adj[normalize(d)] # <<>>
        /\ \E k \in 1..Len(Published(d)) : IsCycleWarning(Published(d)[k])
        /\ \E k \in 1..Len(Published(d)) : Published(d)[k].severity = "Error"

\* the edges of the imports of txt that resolve to a file, in text order
RECURSIVE ResolvedEdgesFrom(_, _, _)
ResolvedEdgesFrom(d, txt, i) ==
    IF i > Len(txt) THEN <<>>
    ELSE (IF txt[i].kind = "import" /\ resolveImport(FsFiles, d, txt[i].lit) # Null
          THEN <<[resolvedPath |-> resolveImport(FsFiles, d, txt[i].lit),
                  originalImport |-> txt[i].lit,
                  isIgnored |-> (i > 1 /\ txt[i - 1] = MarkerLine)]>>
          ELSE <<>>)
         \o ResolvedEdgesFrom(d, txt, i + 1)

\* C12: whatever the rules, an analysed file has an adjacency entry, and the
\* entry holds the edges of its current text
C12_EntryFollowsText ==
    config.exists =>
        \A d \in Documents :
            text[d] # <<>> =>
                /\ normalize(d) \in DOMAIN adj
                /\ adj[normalize(d)] = ResolvedEdgesFrom(d, text[d], 1)

\* C13: an import whose literal resolves to no file is still recorded as an
\* edge of the importing file, carrying the literal
C13_UnresolvedRecorded ==
    config.exists =>
        \A d \in Documents : \A i \in 1..Len(text[d]) :
            ( /\ IsImportAt(d, i)
              /\ \E r \in 1..Len(config.rules) : InScopeOf(config.rules[r], d)
              /\ resolveImport(FsFiles, d, text[d][i].lit) = Null )
            => /\ normalize(d) \in DOMAIN adj
               /\ \E e \in 1..Len(adj[normalize(d)]) :
                     adj[normalize(d)][e].originalImport = text[d][i].lit

\* a literal that is neither relative nor an absolute path
IsPackage(lit) == ~StartsWith(lit, ".") /\ ~StartsWith(lit, "/")

\* C16: a literal that is neither relative nor absolute resolves to null, is
\* the target of no recorded edge and appears in no cycle witness
C16_PackagesStayOut ==
    /\ \A d \in Documents : \A lit \in Literals :
          IsPackage(lit) => resolveImport(FsFiles, d, lit) = Null
    /\ \A i \in 1..Len(StoredEdges) :
          /\ ~IsPackage(StoredEdges[i].imp.originalImport)
          /\ StoredEdges[i].imp.resolvedPath \notin Literals
    /\ \A d \in Documents : Range(detectCycle(graph, d)) \cap Literals = {}

\* a.ts analysed with an import of react and an import that resolves: one
\* edge, and a cycle through it
C16_Witness ==
    /\ ImportLine("react") \in Range(text[FileA])
    /\ ImportLine("../domain/a") \in Range(text[FileA])
    /\ IdA \in DOMAIN adj
    /\ Len(adj[IdA]) = 1
    /\ detectCycle(graph, FileA) = <<IdA, IdA>>

-----------------------------------------------------------------------------
\* Properties of the rendered nodes, under SpecGraph

Stable == "#77dd77"
Hybrid == "#fdfd96"
Volatile == "#ffb347"

\* the bucket of the instability out / (in + out), 0 when both are 0
Bucket(out, in) ==
    IF in + out = 0 \/ 10 * out <= 3 * (in + out) THEN Stable
    ELSE IF 10 * out <= 7 * (in + out) THEN Hybrid
    ELSE Volatile

\* C20: every node is coloured by the bucket of its instability: stable up
\* to 0.3, hybrid above 0.3 and up to 0.7, volatile above 0.7
C20_ColourBuckets ==
    LET json == getJsonGraph(graph, config.rules) IN
    \A n \in 1..Len(json.nodes) :
        json.nodes[n].color = Bucket(FanOut(json.nodes[n].id), FanIn(json.nodes[n].id))

-----------------------------------------------------------------------------
\* Properties of the graph's operations, under SpecRead

\* C14: update(X, edges) makes the entry of X the given list and leaves every
\* other entry as it was; detectCycle and getJsonGraph leave every entry as
\* it was
C14_OnlyUpdateWrites ==
    [][ /\ \A f \in ReadFiles, imports \in ReadEdgeLists :
              GraphUpdate(f, imports) =>
                  /\ DOMAIN adj' = (DOMAIN adj) \cup {normalize(f)}
                  /\ adj'[normalize(f)] = imports
                  /\ \A k \in (DOMAIN adj) \ {normalize(f)} : adj'[k] = adj[k]
        /\ ((\E f \in FsFiles : DetectCycle(f)) \/ GetJsonGraph(config.rules))
              => (adj' = adj /\ keys' = keys) ]_vars

\* a cycle found, and so traversed, in a graph with two entries
C14_Witness ==
    /\ ret.call = "detectCycle"
    /\ ret.value # <<>>
    /\ Len(keys) = 2
    /\ \A k \in DOMAIN adj : adj[k] # <<>>

\* C15: detectCycle on an identity with no entry, or with the empty list,
\* returns the empty sequence; update stores the list it is given, the empty
\* list too
C15_LeafAndAbsent ==
    /\ [](ret.call = "detectCycle"
            => ((ret.startNode \notin DOMAIN adj \/ neighborsOf(graph, ret.startNode) = <<>>)
                    => ret.value = <<>>))
    /\ [][\A f \in ReadFiles, imports \in ReadEdgeLists :
              GraphUpdate(f, imports)
                  => (normalize(f) \in DOMAIN adj' /\ adj'[normalize(f)] = imports)]_vars

\* detectCycle called on an identity without an entry while another file
\* has the empty list
C15_Witness ==
    /\ ret.call = "detectCycle"
    /\ ret.startNode \notin DOMAIN adj
    /\ ret.value = <<>>
    /\ \E k \in DOMAIN adj : adj[k] = <<>>

-----------------------------------------------------------------------------
\* Properties of resolveImport, under SpecResolve

\* the candidates for the joined path j, in the order they are to be tried,
\* each with whether the disk makes it a hit
CandidatesOf(files, j) ==
    <<[path |-> j, hit |-> isFile(files, j)]>>
    \o [e \in 1..5 |->
           LET c == withExt(j, <<".ts", ".tsx", ".dart", ".js", ".jsx">>[e])
           IN  [path |-> c, hit |-> existsSync(files, c)]]
    \o [e \in 1..5 |->
           LET c == Append(j, "index" \o <<".ts", ".tsx", ".dart", ".js", ".jsx">>[e])
           IN  [path |-> c, hit |-> isDirectory(files, j) /\ existsSync(files, c)]]

FirstHit(cands) ==
    LET hits == {i \in 1..Len(cands) : cands[i].hit} IN
    IF hits = {} THEN Null
    ELSE normalize(cands[CHOOSE i \in hits : \A o \in hits : i <= o].path)

\* C17: a relative literal resolves to the first existing candidate among
\* the joined path (a file), the path with .ts, .tsx, .dart, .js, .jsx, and
\* index with these extensions inside the path (a directory), else to null;
\* an absolute literal resolves to itself if it exists, else to null
C17_FirstCandidate ==
    ret.call = "resolveImport" =>
        ret.value =
            IF StartsWith(ret.importPath, ".")
            THEN FirstHit(CandidatesOf(disk, pathResolve(dirname(FileA), ret.importPath)))
            ELSE IF StartsWith(ret.importPath, "/")
                    /\ existsSync(disk, Split(ret.importPath, "/"))
                 THEN ret.importPath
                 ELSE Null

\* './m' resolved to m.tsx on a disk without m.ts, with m.js and with the
\* directory m holding index.ts
C17_Witness ==
    /\ ret.call = "resolveImport"
    /\ ret.importPath = "./m"
    /\ withExt(ModuleM, ".ts") \notin disk
    /\ withExt(ModuleM, ".tsx") \in disk
    /\ withExt(ModuleM, ".js") \in disk
    /\ Append(ModuleM, "index.ts") \in disk
    /\ ret.value = "/src/domain/m.tsx"

-----------------------------------------------------------------------------
\* Properties of malformed rules, under SpecBadRules

Malformed(rs) ==
    \E r \in 1..Len(rs) :
        \/ ~validRegExp(rs[r].scope)
        \/ \E f \in 1..Len(rs[r].forbidden) : ~validRegExp(rs[r].forbidden[f])

\* C18: under rules with a malformed pattern no analysis runs to its end,
\* whatever the file, its scope and its imports: nothing is recorded in the
\* graph and nothing is published
C18_MalformedFailsLoud ==
    (config.exists /\ Malformed(config.rules)) =>
        /\ keys = <<>>
        /\ \A d \in Documents : Published(d) = <<>>

-----------------------------------------------------------------------------
\* Properties of the quick fix, under SpecFix

\* the diagnostic old of a text is still among diags after a line was
\* inserted at its start line
StillReported(old, diags) ==
    \E j \in 1..Len(diags) :
        /\ diags[j].message = old.message
        /\ diags[j].severity = old.severity
        /\ IsCycleWarning(old) \/ diags[j].line = old.line + 1

\* C19: after the quick fix of a diagnostic is applied and the document is
\* analysed again, the diagnostics no longer hold that finding
C19_FixSilences ==
    [][\A k \in 1..(MaxLines + 1) :
          ApplyQuickFix(FileA, k)
              => ~StillReported(diagnosticCollection[FileA][k],
                                diagnosticCollection'[FileA])]_vars

-----------------------------------------------------------------------------
\* Persistence of the graph, under SpecRead

\* C21: the graph starts empty; no step takes a key away, and the entry of
\* a key changes only in an update of that key, which makes it the list
\* given, so it is always the list of the latest update of the key
C21_EntriesPersist ==
    /\ (keys = <<>> /\ adj = <<>>)
    /\ [][ /\ DOMAIN adj \subseteq DOMAIN adj'
           /\ Range(keys) \subseteq Range(keys')
           /\ \A k \in DOMAIN adj :
                 \/ adj'[k] = adj[k]
                 \/ \E f \in ReadFiles, imports \in ReadEdgeLists :
                       /\ normalize(f) = k
                       /\ GraphUpdate(f, imports)
                       /\ adj'[k] = imports ]_vars

\* a file given the empty list after it had edges, while another file
\* keeps its edge
C21_Witness ==
    /\ ret.call = "update"
    /\ keys = <<IdA, IdB>>
    /\ adj[IdA] = <<>>
    /\ adj[IdB] = <<EdgeTo(FileA)>>

-----------------------------------------------------------------------------
\* Properties of the live analysis, under Spec

\* the violation findings published for the 0-based line l of document d
ViolationsAt(d, l) ==
    SelectSeq(Published(d), LAMBDA g : g.severity = "Error" /\ g.line = l)

\* the rules of the configuration, in its order, that apply to d and have a
\* forbidden pattern matching the import lit of d
HittingRules(d, lit) ==
    SelectSeq(config.rules,
              LAMBDA rule :
                  /\ InScopeOf(rule, d)
                  /\ \E f \in 1..Len(rule.forbidden) :
                        \/ RegExpTest(rule.forbidden[f], TargetPath(d, lit))
                        \/ RegExpTest(rule.forbidden[f], lit))

\* C22: an import has at most one violation finding, and it carries the
\* message of the first rule with a matching forbidden pattern
C22_FirstHitOnly ==
    \A d \in Documents : \A i \in 1..Len(text[d]) :
        LET at == ViolationsAt(d, i - 1) IN
        /\ Len(at) <= 1
        /\ (Len(at) = 1 /\ IsImportAt(d, i)) =>
               /\ HittingRules(d, text[d][i].lit) # <<>>
               /\ at[1].message = HittingRules(d, text[d][i].lit)[1].message
                                      \o " (Forbidden import: " \o text[d][i].lit \o ")"

-----------------------------------------------------------------------------
\* Properties of the suppression flag, under SpecFix

\* every import of txt is a statement on one line, or one on two lines
StatementsOnly(txt) ==
    \A i \in 1..Len(txt) :
        /\ txt[i].kind = "importHead" => (i < Len(txt) /\ txt[i + 1].kind = "importTail")
        /\ txt[i].kind = "importTail" => (i > 1 /\ txt[i - 1].kind = "importHead")

\* the line above the start of the import statement that ends on line i
\* holds the marker
MarkerAboveStatement(txt, i) ==
    LET start == IF txt[i].kind = "importTail" THEN i - 1 ELSE i IN
    start > 1 /\ Includes(Trim(lineText(txt[start - 1])), SuppressionMarker)

\* the edges of the import statements of txt that resolve to a file, each
\* flagged by the line above its statement
RECURSIVE FlaggedEdgesFrom(_, _, _)
FlaggedEdgesFrom(d, txt, i) ==
    IF i > Len(txt) THEN <<>>
    ELSE (IF txt[i].kind \in {"import", "importTail"}
             /\ resolveImport(FsFiles, d, txt[i].lit) # Null
          THEN <<[resolvedPath |-> resolveImport(FsFiles, d, txt[i].lit),
                  originalImport |-> txt[i].lit,
                  isIgnored |-> MarkerAboveStatement(txt, i)]>>
          ELSE <<>>)
         \o FlaggedEdgesFrom(d, txt, i + 1)

\* the edges an analysis of the text of a.ts records under the rules rs
EdgesUnder(rs) == scanImports(FileA, text[FileA], rs).importsFound

\* C23: the flag of every recorded edge says whether the line above the
\* start of its import statement holds the marker, and is the same under
\* every rule set
C23_FlagFromLineAbove ==
    (IdA \in DOMAIN adj /\ StatementsOnly(text[FileA])) =>
        /\ adj[IdA] = FlaggedEdgesFrom(FileA, text[FileA], 1)
        /\ \A rs \in RuleSets : EdgesUnder(rs) = adj[IdA]

-----------------------------------------------------------------------------
\* The shape of a cycle witness, under SpecGraph

\* w starts at start, follows recorded edges, and repeats no identity but
\* its last, which it has exactly once before
IsLasso(w, start) ==
    /\ w[1] = start
    /\ \A i \in 1..(Len(w) - 1) : w[i + 1] \in Successors(w[i])
    /\ \A i, j \in 1..(Len(w) - 1) : i # j => w[i] # w[j]
    /\ Cardinality({j \in 1..(Len(w) - 1) : w[j] = w[Len(w)]}) = 1

\* C26: every non-empty witness of detectCycle starts at the start identity,
\* is a path of the graph and repeats only its last identity, once
C26_WitnessIsPath ==
    \A f \in FsFiles :
        detectCycle(graph, f) # <<>> => IsLasso(detectCycle(graph, f), normalize(f))

\* a witness found after the traversal backtracked from a leaf, and one
\* that closes on an identity other than its start
C26_Witness ==
    /\ IdA \in DOMAIN adj /\ IdB \in DOMAIN adj
    /\ adj[IdA] = <<EdgeTo(FileC), EdgeTo(FileB)>>
    /\ adj[IdB] = <<EdgeTo(FileB)>>
    /\ detectCycle(graph, FileA) = <<IdA, IdB, IdB>>

-----------------------------------------------------------------------------
\* The projection of the graph, under SpecGraph

\* the number of edges recorded for the keys of S
RECURSIVE EdgeCount(_)
EdgeCount(S) ==
    IF S = {} THEN 0
    ELSE LET k == CHOOSE k \in S : TRUE IN Len(adj[k]) + EdgeCount(S \ {k})

\* C27: the nodes of getJsonGraph have pairwise distinct ids, they are the
\* keys and the edge targets, every rendered edge joins two of them, and
\* there are as many rendered edges as recorded ones
C27_ProjectionShape ==
    LET json == getJsonGraph(graph, config.rules)
        ids == {json.nodes[i].id : i \in 1..Len(json.nodes)}
    IN  /\ \A i, j \in 1..Len(json.nodes) : i # j => json.nodes[i].id # json.nodes[j].id
        /\ ids = (DOMAIN adj) \cup UNION {Successors(k) : k \in DOMAIN adj}
        /\ \A e \in 1..Len(json.edges) : json.edges[e].from \in ids /\ json.edges[e].to \in ids
        /\ Len(json.edges) = EdgeCount(DOMAIN adj)

\* a target of two files that has no entry, and a target that has one
C27_Witness ==
    /\ keys = <<IdA, IdB>>
    /\ adj[IdA] = <<EdgeTo(FileC)>>
    /\ adj[IdB] = <<EdgeTo(FileC), EdgeTo(FileA)>>
    /\ Len(getJsonGraph(graph, config.rules).nodes) = 3

-----------------------------------------------------------------------------
\* Published diagnostics against the current state, under Spec

HasCycleWarning(d) ==
    \E k \in 1..Len(Published(d)) : IsCycleWarning(Published(d)[k])

\* C28: an analysed file carries a cycle warning exactly when detectCycle
\* on the current graph finds a cycle from it
C28_WarningsFollowGraph ==
    \A d \in Documents :
        normalize(d) \in DOMAIN adj =>
            (HasCycleWarning(d) <=> detectCycle(graph, d) # <<>>)

\* the Error and Warning diagnostics held for the documents of S
RECURSIVE IssuesIn(_)
IssuesIn(S) ==
    IF S = {} THEN 0
    ELSE LET d == CHOOSE d \in S : TRUE IN
         Len(SelectSeq(Published(d), LAMBDA g : g.severity \in {"Error", "Warning"}))
         + IssuesIn(S \ {d})

\* C29: the status bar shows Arch: Clean exactly when no document holds an
\* Error or Warning diagnostic, and the number of them otherwise
C29_StatusBarFaithful ==
    /\ statusBar.text = "Arch: Clean" <=> IssuesIn(Documents) = 0
    /\ statusBar.issues = IssuesIn(Documents)

-----------------------------------------------------------------------------
\* An analysis that aborts, under SpecConfig

\* the analysis of document d with the text t hits a pattern that is no
\* regular expression
Aborts(d, t) == config.exists /\ throwsSyntaxError(d, t, config.rules)

\* C30: an analysis that aborts leaves the graph and the published
\* diagnostics as they were
C30_AbortLeavesState ==
    [][\A d \in {FileA} :
          ( /\ OnDidSaveTextDocument(d, text'[d]) \/ OnDidOpenTextDocument(d)
            /\ Aborts(d, text'[d]) )
              => /\ keys' = keys
                 /\ adj' = adj
                 /\ diagnosticCollection' = diagnosticCollection]_vars

\* a.ts saved with another import under malformed rules, when it had an
\* edge and a finding from an earlier analysis
C30_Witness ==
    /\ config.exists /\ Malformed(config.rules)
    /\ text[FileA] = <<ImportLine("react")>>
    /\ IdA \in DOMAIN adj
    /\ adj[IdA] = <<[resolvedPath |-> IdC, originalImport |-> "../infra/db",
                     isIgnored |-> FALSE]>>
    /\ Published(FileA) # <<>>

-----------------------------------------------------------------------------
\* Handlers and events, under SpecLoop and SpecTraverse

Traversing == loop.run.pc = "detectCycle"
Projecting == loop.run.pc = "getJsonGraph"

\* C24: while a traversal or a projection is under way no step changes the
\* graph, and what it yields is what detectCycle and getJsonGraph give on the
\* graph as it stands
C24_NoUpdateInsideTraversal ==
    [][ /\ (Traversing \/ Projecting) => (keys' = keys /\ adj' = adj)
        /\ (Traversing /\ loop'.run = Idle) =>
              LET cycle == detectCycle(graph, loop.run.document) IN
              diagnosticCollection'[loop.run.document] =
                  IF Len(cycle) > 0
                  THEN Append(loop.run.diagnostics, cycleDiagnostic(cycle))
                  ELSE loop.run.diagnostics
        /\ (Projecting /\ loop'.run = Idle) =>
              [nodes |-> loop.run.acc.nodes, edges |-> loop.run.acc.edges]
                  = getJsonGraph(graph, loop.run.rules) ]_vars

\* the traversal for a.ts is two calls deep while the save of db.ts, whose
\* text is not yet in the graph, waits
C24_Witness ==
    /\ Traversing
    /\ loop.run.document = FileA
    /\ Len(loop.run.m.frames) = 2
    /\ loop.queue = <<[kind |-> "analyze", document |-> FileC]>>
    /\ text[FileC] = <<ImportLine("../domain/a")>>
    /\ IdC \in DOMAIN adj
    /\ adj[IdC] = <<>>

\* C25: a traversal that has started comes to its end, and no identity is
\* entered when it has been entered before
C25_TraversalEnds ==
    /\ Traversing ~> (loop.run = Idle)
    /\ [][ (Traversing /\ loop'.run.pc = "detectCycle"
              /\ Len(loop'.run.m.frames) = Len(loop.run.m.frames) + 1)
             => loop'.run.m.frames[Len(loop'.run.m.frames)].node \notin loop.run.m.visited ]_vars

\* a traversal back in the call for a.ts after the call for db.ts
\* returned, with db.ts next in the list again; and one that found a cycle
C25_Witness ==
    /\ Traversing
    /\ loop.run.m.frames # <<>>
    /\ loop.run.m.frames[1].neighbors # <<>>
    /\ loop.run.m.frames[1].i = 2
    /\ loop.run.m.visited = {IdA, IdC}
    /\ loop.run.m.recursionStack = {IdA}

====
